---- MODULE Spec2Model ----
(***************************************************************************)
(* MedGPT front end (src/script.js): the local clinical decision support   *)
(* engine (searchMedicineLocal, checkInteractions, substituteAndOptimize,   *)
(* riskScore) and the session state around it (profile, selectedMeds,       *)
(* medicineDB, the rendered interaction list and the risk radar).           *)
(*                                                                          *)
(* JavaScript strings are TLA+ strings; Len, SubSeq and \o act on them       *)
(* character by character.  An absent (undefined) property of a catalog      *)
(* record is a field missing from the record's DOMAIN.                       *)
(***************************************************************************)
EXTENDS Integers, Sequences, FiniteSets, TLC

VARIABLES
    USE_BACKEND,      \* script.js:2, fixed for the session
    profile,          \* script.js:6-16 (the fields the engine reads, and age)
    selectedMeds,     \* script.js:17
    medicineDB,       \* script.js:18, a JSON value [kind, items]
    radar,            \* script.js:20, <<>> for null, else <<data of the chart>>
    interactionList,  \* the <li> texts of #interactionList, <<>> before the first render
    initPc,           \* where init() is: "fetching", "done" or "aborted"
    askPending,       \* /ask requests awaiting their response (onSend)
    sumPending,       \* /summarize requests awaiting their response (onSummarize)
    skippedAdd,       \* history: some add found its id already selected
    ret               \* the last engine call made directly: [fn, arg, threw, value]

vars == <<USE_BACKEND, profile, selectedMeds, medicineDB, radar, interactionList,
          initPc, askPending, sumPending, skippedAdd, ret>>

-----------------------------------------------------------------------------
(* Bounds of the model *)

\* requests of one kind that may be in flight together
MaxInFlight == 1
\* length of a detected_medicines list in a backend response
MaxDetected == 2
\* length of the meds argument handed to checkInteractions directly
MaxMeds == 4
\* records in a synthetic catalog for substituteAndOptimize
MaxCatalog == 3
\* the records of a synthetic catalog whose price varies cost 0..MaxPrice
MaxPrice == 1

-----------------------------------------------------------------------------
(* JSON values *)

\* the value resp.json() yields: an array of records, or some other JSON value
jsonArray(items) == [kind |-> "array", items |-> items]
jsonObject == [kind |-> "object", items |-> <<>>]

isArray(db) == db.kind = "array"

\* a value handed to searchMedicineLocal: a string, null/undefined, or a non-zero number
jsString(v) == [t |-> "string", v |-> v]
jsNull == [t |-> "null", v |-> ""]
jsNumber == [t |-> "number", v |-> "5"]

\* the result of a call that may throw
returned(v) == [threw |-> FALSE, value |-> v]
thrown == [threw |-> TRUE, value |-> <<>>]

-----------------------------------------------------------------------------
(* Sample content of data/medicineData.json, fetched by init (script.js:514-515) *)

recParacetamol ==
    [id |-> "paracetamol", name |-> "Paracetamol", generic |-> "Acetaminophen",
     class |-> "Analgesic", ingredients |-> <<"Paracetamol">>,
     brands |-> <<[brand |-> "Crocin", region |-> "IN"],
                  [brand |-> "Tylenol", region |-> "US"]>>,
     sideEffects |-> <<"Nausea">>, contraindications |-> <<"Liver disease">>,
     priceINR |-> 1]

recIbuprofen ==
    [id |-> "ibuprofen", name |-> "Ibuprofen", generic |-> "Ibuprofen",
     class |-> "NSAID", ingredients |-> <<"Ibuprofen">>,
     brands |-> <<[brand |-> "Brufen", region |-> "IN"],
                  [brand |-> "Advil", region |-> "US"]>>,
     sideEffects |-> <<"Heartburn">>, contraindications |-> <<"Renal impairment">>,
     priceINR |-> 2]

\* no sideEffects and no contraindications property
recAmoxiclav ==
    [id |-> "amoxiclav", name |-> "Amoxiclav", generic |-> "Amoxicillin Clavulanate",
     class |-> "Antibiotic", ingredients |-> <<"Amoxicillin", "Clavulanic Acid">>,
     brands |-> <<[brand |-> "Augmentin", region |-> "IN"]>>,
     priceINR |-> 10]

\* no brands property
recNaproxen ==
    [id |-> "naproxen", name |-> "Naproxen", generic |-> "Naproxen Sodium",
     class |-> "nsaid", ingredients |-> <<"Naproxen">>,
     sideEffects |-> <<"Drowsiness">>, contraindications |-> <<"Kidney disease">>,
     priceINR |-> 2]

\* no ingredients property
recCombiflam ==
    [id |-> "combiflam", name |-> "Combiflam", generic |-> "Ibuprofen + Paracetamol",
     class |-> "NSAID",
     brands |-> <<[brand |-> "Combiflam", region |-> "IN"]>>,
     sideEffects |-> <<"Fatigue and sedation">>, contraindications |-> <<"Peptic ulcer">>,
     priceINR |-> 3]

recCalpol ==
    [id |-> "calpol", name |-> "Calpol", generic |-> "Paracetamol",
     class |-> "Analgesic", ingredients |-> <<"ACETAMINOPHEN">>,
     brands |-> <<[brand |-> "Calpol", region |-> "IN"]>>,
     sideEffects |-> <<>>, contraindications |-> <<>>,
     priceINR |-> 1]

DemoCatalog == <<recParacetamol, recAmoxiclav>>

FullCatalog ==
    <<recParacetamol, recIbuprofen, recAmoxiclav, recNaproxen, recCombiflam, recCalpol>>

\* what the fetch of the data file can deliver as parsed JSON
DataFiles == {jsonArray(DemoCatalog), jsonArray(<<>>), jsonObject}

-----------------------------------------------------------------------------
(* Inputs of the handlers *)

\* text typed into #allergies
AllergyInputs == {"", " dust ,PENICILLIN,"}
\* text typed into #age
AgeInputs == {"", "30"}
\* options of #region
RegionInputs == {"IN", "US"}
\* text typed into #mapperQuery
MapperInputs == {"  ", " Crocin ", "AUGMENT", "zzz"}
\* text typed into #input
ChatInputs == {" ", "fever"}
\* entries of a detected_medicines list
DetectedNames == {jsString("PARA"), jsString("clav")}

SeqsUpTo(S, n) == UNION {[1..k -> S] : k \in 0..n}

\* a backend response as its handler sees it: the request or the rendering of
\* the answer failed, or detected_medicines is no array, or it is a list of names
Responses ==
    {[ok |-> FALSE, isList |-> FALSE, names |-> <<>>],
     [ok |-> TRUE, isList |-> FALSE, names |-> <<>>]}
    \cup {[ok |-> TRUE, isList |-> TRUE, names |-> n] : n \in SeqsUpTo(DetectedNames, MaxDetected)}

-----------------------------------------------------------------------------
(* JavaScript string and array primitives *)

Range(s) == {s[i] : i \in 1..Len(s)}

UpperAlpha == "ABCDEFGHIJKLMNOPQRSTUVWXYZ"
LowerAlpha == "abcdefghijklmnopqrstuvwxyz"

charAt(s, i) == SubSeq(s, i, i)

\* the lower-case letter of each upper-case ASCII letter
LowerOf ==
    [c \in {charAt(UpperAlpha, i) : i \in 1..Len(UpperAlpha)} |->
        charAt(LowerAlpha, CHOOSE i \in 1..Len(UpperAlpha) : charAt(UpperAlpha, i) = c)]

\* String.prototype.toLowerCase on one character (ASCII letters)
lowerChar(c) == IF c \in DOMAIN LowerOf THEN LowerOf[c] ELSE c

\* the characters of s from position i on, each in lower case
RECURSIVE lowerFrom(_, _)
lowerFrom(s, i) ==
    IF i > Len(s) THEN "" ELSE lowerChar(charAt(s, i)) \o lowerFrom(s, i + 1)

\* m.f || [] for an optional array property f
orEmpty(m, f) == IF f \in DOMAIN m THEN m[f] ELSE <<>>

\* m.f || "" for an optional string property f
orBlank(m, f) == IF f \in DOMAIN m THEN m[f] ELSE ""

\* the strings of the sample records
CatalogStrings ==
    UNION {{m.name, m.generic, orBlank(m, "class")}
           \cup Range(orEmpty(m, "ingredients"))
           \cup {orEmpty(m, "brands")[i].brand : i \in 1..Len(orEmpty(m, "brands"))}
           \cup Range(orEmpty(m, "sideEffects"))
           \cup Range(orEmpty(m, "contraindications")) : m \in Range(FullCatalog)}

\* their lower case, computed once: every search lower-cases them again
LowerCased == [s \in CatalogStrings |-> lowerFrom(s, 1)]

\* String.prototype.toLowerCase
toLowerCase(s) == IF s \in DOMAIN LowerCased THEN LowerCased[s] ELSE lowerFrom(s, 1)

\* String.prototype.includes: q occurs in s at some position; the empty
\* string occurs at position 1 of every string
includes(s, q) ==
    \E i \in 1..(Len(s) - Len(q) + 1) : SubSeq(s, i, i + Len(q) - 1) = q

\* String.prototype.trim: what lies between the first and the last character
\* that is not a space
trim(s) ==
    LET solid == {i \in 1..Len(s) : charAt(s, i) # " "}
    IN IF solid = {} THEN ""
       ELSE SubSeq(s, CHOOSE i \in solid : \A j \in solid : i <= j,
                      CHOOSE i \in solid : \A j \in solid : i >= j)

\* String.prototype.split(","): the pieces between the commas, left to right
split(s) ==
    LET commas == {i \in 1..Len(s) : charAt(s, i) = ","}
        \* the k-th cut: 0, the commas in order, Len(s) + 1
        cut(k) == IF k = 0 THEN 0
                  ELSE IF k = Cardinality(commas) + 1 THEN Len(s) + 1
                  ELSE CHOOSE i \in commas : Cardinality({j \in commas : j < i}) = k - 1
    IN [k \in 1..(Cardinality(commas) + 1) |-> SubSeq(s, cut(k - 1) + 1, cut(k) - 1)]

\* Number(v) of a string of decimal digits
digitOf(c) == (CHOOSE i \in 1..10 : charAt("0123456789", i) = c) - 1

\* the value of the first n digits of s
RECURSIVE digitsValue(_, _)
digitsValue(s, n) ==
    IF n = 0 THEN 0 ELSE digitsValue(s, n - 1) * 10 + digitOf(charAt(s, n))

Number(s) == digitsValue(s, Len(s))

-----------------------------------------------------------------------------
(* searchMedicineLocal, script.js:41-54.  The engine functions read the      *)
(* globals medicineDB, selectedMeds and profile; here each takes the ones it  *)
(* reads as db, sel and prof, and the handlers pass the globals' values.      *)

brandHit(m, q) ==
    \E i \in 1..Len(orEmpty(m, "brands")) :
        includes(toLowerCase(orEmpty(m, "brands")[i].brand), q)

genericHit(m, q) ==
    includes(toLowerCase(m.name), q) \/ includes(toLowerCase(m.generic), q)

ingredientHit(m, q) ==
    \E i \in 1..Len(orEmpty(m, "ingredients")) :
        includes(toLowerCase(orEmpty(m, "ingredients")[i]), q)

searchHit(m, q) == brandHit(m, q) \/ genericHit(m, q) \/ ingredientHit(m, q)

\* (query || "").toLowerCase() throws on a truthy non-string; medicineDB.filter
\* throws when medicineDB is not an array
searchMedicineLocal(db, query) ==
    IF query.t = "number" \/ ~isArray(db) THEN thrown
    ELSE LET q == toLowerCase(IF query.t = "string" THEN query.v ELSE "")
             hit(m) == searchHit(m, q)
         IN returned(SelectSeq(db.items, hit))

-----------------------------------------------------------------------------
(* checkInteractions, script.js:55-70 *)

\* the three warning texts (the source prefixes each with a warning sign)
GastricMsg == "Monitor gastric side effects with NSAID + antibiotic."
LiverMsg == "Paracetamol in liver issues: keep dose low and consult a clinician."
AllergyMsg == "Penicillin allergy noted; avoid Amoxicillin/Clav."

\* meds.map((m) => m.id)
idsOf(meds) == [i \in 1..Len(meds) |-> meds[i].id]

\* (profile.allergies || []).map((x) => x.toLowerCase())
lowerAllergies(prof) ==
    [i \in 1..Len(prof.allergies) |-> toLowerCase(prof.allergies[i])]

\* a faulty variant: the rules chained by else, the first that fires ends the evaluation
checkInteractionsElse(meds, prof) ==
    LET ids == Range(idsOf(meds))
    IN IF "ibuprofen" \in ids /\ "amoxiclav" \in ids THEN <<GastricMsg>>
       ELSE IF "paracetamol" \in ids /\ prof.liver THEN <<LiverMsg>>
       ELSE IF "amoxiclav" \in ids /\ "penicillin" \in Range(lowerAllergies(prof))
       THEN <<AllergyMsg>>
       ELSE <<>>

checkInteractions(meds, prof) ==
    LET ids == Range(idsOf(meds))
        w0 == <<>>
        w1 == IF "ibuprofen" \in ids /\ "amoxiclav" \in ids
              THEN Append(w0, GastricMsg) ELSE w0
        w2 == IF "paracetamol" \in ids /\ prof.liver
              THEN Append(w1, LiverMsg) ELSE w1
        w3 == IF "amoxiclav" \in ids /\ "penicillin" \in Range(lowerAllergies(prof))
              THEN Append(w2, AllergyMsg) ELSE w2
    IN w3

-----------------------------------------------------------------------------
(* substituteAndOptimize, script.js:71-88 *)

\* a.f === b.f for a property f that either record may lack
sameField(a, b, f) ==
    IF f \in DOMAIN a /\ f \in DOMAIN b THEN a[f] = b[f]
    ELSE f \notin DOMAIN a /\ f \notin DOMAIN b

sameClassOf(db, target) ==
    LET keep(m) == sameField(m, target, "class") /\ m.id # target.id
    IN SelectSeq(db.items, keep)

\* a faulty variant: some in place of every
exactGenericSome(db, target) ==
    LET keep(m) ==
            /\ Len(orEmpty(m, "ingredients")) = Len(orEmpty(target, "ingredients"))
            /\ \E i \in 1..Len(orEmpty(m, "ingredients")) :
                   orEmpty(m, "ingredients")[i] \in Range(target.ingredients)
            /\ m.id # target.id
    IN SelectSeq(db.items, keep)

\* target.ingredients is read only by the callback of every, which never
\* runs when the lengths differ or the record has no ingredient
exactGenericOf(db, target) ==
    LET keep(m) ==
            /\ Len(orEmpty(m, "ingredients")) = Len(orEmpty(target, "ingredients"))
            /\ \A i \in 1..Len(orEmpty(m, "ingredients")) :
                   orEmpty(m, "ingredients")[i] \in Range(target.ingredients)
            /\ m.id # target.id
    IN SelectSeq(db.items, keep)

\* a faulty variant (an unstable sort): an element goes before the elements of
\* its own price
RECURSIVE insertBeforeEqual(_, _)
insertBeforeEqual(sorted, m) ==
    IF sorted = <<>> THEN <<m>>
    ELSE IF m.priceINR - Head(sorted).priceINR <= 0
         THEN <<m>> \o sorted
         ELSE <<Head(sorted)>> \o insertBeforeEqual(Tail(sorted), m)

\* Array.prototype.sort with (a, b) => a.priceINR - b.priceINR: ascending and
\* stable; an element goes after every element that is not dearer than it
RECURSIVE insertByPrice(_, _)
insertByPrice(sorted, m) ==
    IF sorted = <<>> THEN <<m>>
    ELSE IF m.priceINR - Head(sorted).priceINR < 0
         THEN <<m>> \o sorted
         ELSE <<Head(sorted)>> \o insertByPrice(Tail(sorted), m)

\* the first n elements of s, sorted
RECURSIVE sortPrefix(_, _)
sortPrefix(s, n) ==
    IF n = 0 THEN <<>> ELSE insertByPrice(sortPrefix(s, n - 1), s[n])

sortByPrice(s) == sortPrefix(s, Len(s))

cheapestOf(db, target) == sortByPrice(<<target>> \o sameClassOf(db, target))[1]

localBrandsOf(prof, target) ==
    LET bs == orEmpty(target, "brands")
        local(b) == b.region = prof.region
        kept == SelectSeq(bs, local)
    IN [i \in 1..Len(kept) |-> kept[i].brand]

substituteAndOptimize(db, prof, target) ==
    IF ~isArray(db) THEN thrown
    ELSE returned([exactGeneric |-> exactGenericOf(db, target),
                   sameClass |-> sameClassOf(db, target),
                   cheapest |-> cheapestOf(db, target),
                   localBrands |-> localBrandsOf(prof, target)])

-----------------------------------------------------------------------------
(* riskScore, script.js:133-169 *)

\* medicineDB.find((m) => m.id === id): the first record with that id, if any
findById(db, id) ==
    LET hit(m) == m.id = id
    IN SelectSeq(db.items, hit)

\* selectedMeds.map((id) => medicineDB.find(...)).filter(Boolean)
resolve(db, sel) ==
    LET found == [i \in 1..Len(sel) |-> findById(db, sel[i])]
        some(f) == f # <<>>
        kept == SelectSeq(found, some)
    IN [i \in 1..Len(kept) |-> kept[i][1]]

\* find is called once per selected id: it throws when medicineDB is no array
resolveThrows(db, sel) == sel # <<>> /\ ~isArray(db)

\* /drowsiness|sedation|fatigue/.test(s)
sedationRe(s) ==
    includes(s, "drowsiness") \/ includes(s, "sedation") \/ includes(s, "fatigue")

\* /paracetamol|acetaminophen/i.test(s)
paracetamolRe(s) ==
    includes(toLowerCase(s), "paracetamol") \/ includes(toLowerCase(s), "acetaminophen")

\* /kidney|renal/i.test(s)
kidneyRe(s) == includes(toLowerCase(s), "kidney") \/ includes(toLowerCase(s), "renal")

sedationPoints(m) ==
    IF \E i \in 1..Len(orEmpty(m, "sideEffects")) :
           sedationRe(toLowerCase(orEmpty(m, "sideEffects")[i]))
    THEN 25 ELSE 0

gastroPoints(m) == IF toLowerCase(orBlank(m, "class")) = "nsaid" THEN 40 ELSE 0

liverPoints(m) ==
    IF \E i \in 1..Len(orEmpty(m, "ingredients")) :
           paracetamolRe(orEmpty(m, "ingredients")[i])
    THEN 40 ELSE 0

kidneyPoints(m) ==
    IF \E i \in 1..Len(orEmpty(m, "contraindications")) :
           kidneyRe(orEmpty(m, "contraindications")[i])
    THEN 20 ELSE 0

\* a dimension after meds.forEach has added the points of the first n medicines
RECURSIVE sumFirst(_, _)
sumFirst(pts, n) == IF n = 0 THEN 0 ELSE sumFirst(pts, n - 1) + pts[n]

min(a, b) == IF a < b THEN a ELSE b
max(a, b) == IF a > b THEN a ELSE b

\* a faulty variant: the clamp without its upper limit
clampBelow(v) == max(0, v)

\* const clamp = (v) => Math.max(0, Math.min(100, v))
clamp(v) == max(0, min(100, v))

riskScore(db, sel, prof) ==
    LET meds == resolve(db, sel)
        n == Len(meds)
        sedation == sumFirst([i \in 1..n |-> sedationPoints(meds[i])], n)
        gastro == sumFirst([i \in 1..n |-> gastroPoints(meds[i])], n)
                  + (IF prof.ulcer THEN 30 ELSE 0)
        liver == sumFirst([i \in 1..n |-> liverPoints(meds[i])], n)
                 + (IF prof.liver THEN 30 ELSE 0)
        kidney == sumFirst([i \in 1..n |-> kidneyPoints(meds[i])], n)
        inter == min(Len(checkInteractions(meds, prof)) * 25, 100)
        allergy == IF "penicillin" \in Range(lowerAllergies(prof))
                      /\ "amoxiclav" \in Range(sel)
                   THEN 100 ELSE 0
    IN [Sedation |-> clamp(sedation), Gastro |-> clamp(gastro), Liver |-> clamp(liver),
        Kidney |-> clamp(kidney), Interactions |-> clamp(inter), Allergy |-> clamp(allergy)]

-----------------------------------------------------------------------------
(* The session: init and the handlers it registers *)

DefaultProfile ==
    [age |-> 21, region |-> "IN", allergies |-> <<>>, ulcer |-> FALSE, liver |-> FALSE]

noCall == [fn |-> "none", arg |-> <<>>, threw |-> FALSE, value |-> <<>>]

Init ==
    /\ USE_BACKEND \in BOOLEAN
    /\ profile = DefaultProfile
    /\ selectedMeds = <<>>
    /\ medicineDB = jsonArray(<<>>)
    /\ radar = <<>>
    /\ interactionList = <<>>
    /\ initPc = "fetching"
    /\ askPending = 0
    /\ sumPending = 0
    /\ skippedAdd = FALSE
    /\ ret = noCall

\* a faulty variant: the push without the includes test
addAlways(sel, id) == Append(sel, id)

\* a faulty variant: unshift in place of push
addInFront(sel, id) == IF id \in Range(sel) THEN sel ELSE <<id>> \o sel

\* if (!selectedMeds.includes(id)) selectedMeds.push(id)
\* (script.js:246-247, 310-311, 349-350)
addIfAbsent(sel, id) == IF id \in Range(sel) THEN sel ELSE Append(sel, id)

\* a faulty variant: the loop pushes the detected name, not the id of the
\* record found
mergeOnePushName(db, acc, name) ==
    IF acc.threw THEN acc
    ELSE LET r == searchMedicineLocal(db, name)
         IN IF r.threw THEN [acc EXCEPT !.threw = TRUE]
            ELSE IF r.value = <<>> THEN acc
            ELSE [acc EXCEPT !.sel = addIfAbsent(acc.sel, name.v),
                             !.skipped = @ \/ name.v \in Range(acc.sel)]

\* detected_medicines.forEach((name) => { ... }) of onSend and onSummarize
\* (script.js:244-248, 308-312): the selection after the loop, whether a call
\* of searchMedicineLocal threw (which ends the loop, keeping the pushes made),
\* and whether some found id was already selected.
\* One turn of the loop, on what the turns before it left:
mergeOne(db, acc, name) ==
    IF acc.threw THEN acc
    ELSE LET r == searchMedicineLocal(db, name)
         IN IF r.threw THEN [acc EXCEPT !.threw = TRUE]
            ELSE IF r.value = <<>> THEN acc
            ELSE [acc EXCEPT !.sel = addIfAbsent(acc.sel, r.value[1].id),
                             !.skipped = @ \/ r.value[1].id \in Range(acc.sel)]

\* the loop after its first n turns
RECURSIVE mergeFirst(_, _, _, _)
mergeFirst(db, sel, names, n) ==
    IF n = 0 THEN [sel |-> sel, threw |-> FALSE, skipped |-> FALSE]
    ELSE mergeOne(db, mergeFirst(db, sel, names, n - 1), names[n])

mergeDetected(db, sel, names) == mergeFirst(db, sel, names, Len(names))

\* the <li> texts renderSelectedChips writes (script.js:120-128)
renderedList(db, sel, prof) ==
    LET warnings == checkInteractions(resolve(db, sel), prof)
    IN IF Len(warnings) > 0 THEN warnings ELSE <<"No interactions flagged.">>

\* updateRiskRadar (script.js:170-196) once the globals hold db, sel and prof;
\* riskScore throws before the chart is replaced when find is no function
UpdateRiskRadar(db, sel, prof) ==
    radar' = IF resolveThrows(db, sel) THEN radar ELSE <<riskScore(db, sel, prof)>>

\* renderSelectedChips (script.js:89-130) once the globals hold db, sel and
\* prof; the first find of the chip loop throws before anything is written
RenderSelectedChips(db, sel, prof) ==
    IF resolveThrows(db, sel)
    THEN UNCHANGED <<interactionList, radar>>
    ELSE /\ interactionList' = renderedList(db, sel, prof)
         /\ radar' = <<riskScore(db, sel, prof)>>

\* init resumes after both awaits (script.js:514-523)
InitLoaded ==
    \E file \in DataFiles :
        /\ initPc = "fetching"
        /\ medicineDB' = file
        /\ UNCHANGED <<USE_BACKEND, profile, selectedMeds, askPending, sumPending,
                       skippedAdd, ret>>
        /\ RenderSelectedChips(file, selectedMeds, profile)
        /\ initPc' = IF resolveThrows(file, selectedMeds) THEN "aborted" ELSE "done"

\* fetch("data/medicineData.json") rejects (script.js:514): init has no catch
InitFetchRejects ==
    /\ initPc = "fetching"
    /\ initPc' = "aborted"
    /\ UNCHANGED <<USE_BACKEND, profile, selectedMeds, medicineDB, radar,
                   interactionList, askPending, sumPending, skippedAdd, ret>>

\* resp.json() rejects: the body is no JSON (script.js:515)
InitJsonRejects ==
    /\ initPc = "fetching"
    /\ initPc' = "aborted"
    /\ UNCHANGED <<USE_BACKEND, profile, selectedMeds, medicineDB, radar,
                   interactionList, askPending, sumPending, skippedAdd, ret>>

\* onSend up to its await (script.js:199-216)
OnSend ==
    \E text \in ChatInputs :
        /\ askPending < MaxInFlight
        /\ askPending' = IF trim(text) = "" \/ ~USE_BACKEND THEN askPending
                         ELSE askPending + 1
        /\ UNCHANGED <<USE_BACKEND, profile, selectedMeds, medicineDB, radar,
                       interactionList, initPc, sumPending, skippedAdd, ret>>

\* onSummarize up to its await (script.js:283-297)
OnSummarize ==
    \E hasFile \in BOOLEAN :
        /\ sumPending < MaxInFlight
        /\ sumPending' = IF hasFile THEN sumPending + 1 ELSE sumPending
        /\ UNCHANGED <<USE_BACKEND, profile, selectedMeds, medicineDB, radar,
                       interactionList, initPc, askPending, skippedAdd, ret>>

\* the part of both response handlers inside try (script.js:243-250, 307-314)
MergeResponse(resp) ==
    IF resp.ok /\ resp.isList
    THEN LET m == mergeDetected(medicineDB, selectedMeds, resp.names)
         IN /\ selectedMeds' = m.sel
            /\ skippedAdd' = (skippedAdd \/ m.skipped)
            /\ UNCHANGED <<USE_BACKEND, profile, medicineDB, initPc, ret>>
            /\ IF m.threw THEN UNCHANGED <<interactionList, radar>>
               ELSE RenderSelectedChips(medicineDB, m.sel, profile)
    ELSE UNCHANGED <<USE_BACKEND, profile, selectedMeds, medicineDB, radar,
                     interactionList, initPc, skippedAdd, ret>>

\* onSend after its await (script.js:217-253)
AskResponse ==
    \E resp \in Responses :
        /\ askPending > 0
        /\ askPending' = askPending - 1
        /\ UNCHANGED sumPending
        /\ MergeResponse(resp)

\* onSummarize after its await (script.js:298-317)
SummarizeResponse ==
    \E resp \in Responses :
        /\ sumPending > 0
        /\ sumPending' = sumPending - 1
        /\ UNCHANGED askPending
        /\ MergeResponse(resp)

\* mapBrands (script.js:321-353)
MapBrands ==
    \E text \in MapperInputs :
        LET q == trim(text)
            found == IF q = "" THEN returned(<<>>)
                     ELSE searchMedicineLocal(medicineDB, jsString(q))
            hit == ~found.threw /\ found.value # <<>>
            adds == hit /\ found.value[1].id \notin Range(selectedMeds)
            newSel == IF hit THEN addIfAbsent(selectedMeds, found.value[1].id)
                      ELSE selectedMeds
        IN /\ selectedMeds' = newSel
           /\ skippedAdd' = (skippedAdd \/ (hit /\ ~adds))
           /\ UNCHANGED <<USE_BACKEND, profile, medicineDB, initPc, askPending,
                          sumPending, ret>>
           /\ IF adds THEN RenderSelectedChips(medicineDB, newSel, profile)
              ELSE UNCHANGED <<interactionList, radar>>

\* $("#age").onchange (script.js:482)
OnAgeChange ==
    \E v \in AgeInputs :
        /\ profile' = [profile EXCEPT !.age = IF v = "" THEN 21 ELSE Number(v)]
        /\ UNCHANGED <<USE_BACKEND, selectedMeds, medicineDB, radar, interactionList,
                       initPc, askPending, sumPending, skippedAdd, ret>>

\* a handler that assigns one field of profile and calls updateRiskRadar
SetProfile(prof) ==
    /\ profile' = prof
    /\ UNCHANGED <<USE_BACKEND, selectedMeds, medicineDB, interactionList,
                   initPc, askPending, sumPending, skippedAdd, ret>>
    /\ UpdateRiskRadar(medicineDB, selectedMeds, prof)

\* $("#region").onchange (script.js:483-486)
OnRegionChange ==
    \E v \in RegionInputs : SetProfile([profile EXCEPT !.region = v])

\* e.target.value.split(",").map((s) => s.trim()).filter(Boolean)
parseAllergies(v) ==
    LET parts == split(v)
        trimmed == [i \in 1..Len(parts) |-> trim(parts[i])]
        nonEmpty(x) == x # ""
    IN SelectSeq(trimmed, nonEmpty)

\* $("#allergies").onchange (script.js:487-493)
OnAllergiesChange ==
    \E v \in AllergyInputs : SetProfile([profile EXCEPT !.allergies = parseAllergies(v)])

\* $("#hasUlcer").onchange (script.js:494-497)
OnUlcerChange ==
    \E checked \in BOOLEAN : SetProfile([profile EXCEPT !.ulcer = checked])

\* $("#hasLiver").onchange (script.js:498-501)
OnLiverChange ==
    \E checked \in BOOLEAN : SetProfile([profile EXCEPT !.liver = checked])

Next ==
    \/ InitLoaded
    \/ InitFetchRejects
    \/ InitJsonRejects
    \/ OnSend
    \/ OnSummarize
    \/ AskResponse
    \/ SummarizeResponse
    \/ MapBrands
    \/ OnAgeChange
    \/ OnRegionChange
    \/ OnAllergiesChange
    \/ OnUlcerChange
    \/ OnLiverChange

Spec == Init /\ [][Next]_vars

-----------------------------------------------------------------------------
(* The engine functions called directly, on inputs drawn from bounded sets *)

\* the globals the call does not read, as a finished init leaves them
EngineIdle ==
    /\ USE_BACKEND = FALSE
    /\ radar = <<>>
    /\ interactionList = <<>>
    /\ initPc = "done"
    /\ askPending = 0
    /\ sumPending = 0
    /\ skippedAdd = FALSE
    /\ ret = noCall

\* the elements of s whose positions are in S, in the order of s
pick(s, S) ==
    LET idx == [i \in 1..Len(s) |-> i]
        in(i) == i \in S
        kept == SelectSeq(idx, in)
    IN [k \in 1..Len(kept) |-> s[kept[k]]]

\* every catalog made of records of FullCatalog, in its order
SampleCatalogs == {pick(FullCatalog, S) : S \in SUBSET (1..Len(FullCatalog))}

\* arguments of searchMedicineLocal
Queries ==
    {jsString(""), jsNull, jsNumber, jsString("PARA"), jsString("ibu"),
     jsString("crocin"), jsString("acid"), jsString("zzz")}

SearchInit ==
    /\ EngineIdle
    /\ profile = DefaultProfile
    /\ selectedMeds = <<>>
    /\ medicineDB \in {jsonArray(c) : c \in SampleCatalogs}

CallSearch ==
    \E q \in Queries :
        /\ ret' = [fn |-> "searchMedicineLocal", arg |-> q,
                   threw |-> searchMedicineLocal(medicineDB, q).threw,
                   value |-> searchMedicineLocal(medicineDB, q).value]
        /\ UNCHANGED <<USE_BACKEND, profile, selectedMeds, medicineDB, radar,
                       interactionList, initPc, askPending, sumPending, skippedAdd>>

SearchNext == CallSearch

SearchSpec == SearchInit /\ [][SearchNext]_vars

\* profiles: what the handlers of #allergies, #hasUlcer and #hasLiver can leave
EngineProfiles ==
    {[DefaultProfile EXCEPT !.allergies = parseAllergies(a), !.ulcer = u, !.liver = l] :
        a \in AllergyInputs \cup {"Penicillin", "pollen,dust"}, u \in BOOLEAN, l \in BOOLEAN}

\* the records checkInteractions is handed
CheckPool == {recParacetamol, recIbuprofen, recAmoxiclav}

CheckInit ==
    /\ EngineIdle
    /\ profile \in {p \in EngineProfiles : ~p.ulcer}
    /\ selectedMeds = <<>>
    /\ medicineDB = jsonArray(FullCatalog)

CallCheckInteractions ==
    \E meds \in SeqsUpTo(CheckPool, MaxMeds) :
        /\ ret' = [fn |-> "checkInteractions", arg |-> meds, threw |-> FALSE,
                   value |-> checkInteractions(meds, profile)]
        /\ UNCHANGED <<USE_BACKEND, profile, selectedMeds, medicineDB, radar,
                       interactionList, initPc, askPending, sumPending, skippedAdd>>

CheckNext == CallCheckInteractions

CheckSpec == CheckInit /\ [][CheckNext]_vars

RiskInit ==
    /\ EngineIdle
    /\ profile \in EngineProfiles
    /\ medicineDB = jsonArray(FullCatalog)
    /\ selectedMeds \in {idsOf(c) : c \in SampleCatalogs}

CallRiskScore ==
    /\ ret' = [fn |-> "riskScore", arg |-> selectedMeds,
               threw |-> resolveThrows(medicineDB, selectedMeds),
               value |-> riskScore(medicineDB, selectedMeds, profile)]
    /\ UNCHANGED <<USE_BACKEND, profile, selectedMeds, medicineDB, radar,
                   interactionList, initPc, askPending, sumPending, skippedAdd>>

RiskNext == CallRiskScore

RiskSpec == RiskInit /\ [][RiskNext]_vars

\* synthetic catalogs for substituteAndOptimize: the k-th record has id "m<k>"
synthId(k) == "m" \o charAt("123456789", k)

\* ingredient lists: absent, empty, single, a pair in both orders, a repeat
IngredientLists == {<<>>, <<"A">>, <<"A", "B">>, <<"B", "A">>, <<"A", "A">>}

synthRecord(k, class, price) ==
    [id |-> synthId(k), name |-> synthId(k), generic |-> synthId(k),
     class |-> class, priceINR |-> price]

\* the records that may stand at position k
SynthRecords(k) ==
    {synthRecord(k, "NSAID", k)}
    \cup {synthRecord(k, "NSAID", k) @@ [ingredients |-> ing] : ing \in IngredientLists}
    \cup {synthRecord(k, c, p) @@ [ingredients |-> <<"A">>] :
            c \in {"NSAID", "Analgesic"}, p \in 0..MaxPrice}

\* the catalogs of n records
RECURSIVE SynthCatalogsOf(_)
SynthCatalogsOf(n) ==
    IF n = 0 THEN {<<>>}
    ELSE {Append(c, r) : c \in SynthCatalogsOf(n - 1), r \in SynthRecords(n)}

SynthCatalogs == UNION {SynthCatalogsOf(n) : n \in 0..MaxCatalog}

SubstInit ==
    /\ EngineIdle
    /\ profile = DefaultProfile
    /\ selectedMeds = <<>>
    /\ medicineDB \in {jsonArray(c) : c \in SynthCatalogs}

\* the Alt button of a chip (script.js:98-99): the target is a catalog record
CallSubstitute ==
    \E i \in 1..Len(medicineDB.items) :
        /\ ret' = [fn |-> "substituteAndOptimize", arg |-> medicineDB.items[i],
                   threw |-> substituteAndOptimize(medicineDB, profile, medicineDB.items[i]).threw,
                   value |-> substituteAndOptimize(medicineDB, profile, medicineDB.items[i]).value]
        /\ UNCHANGED <<USE_BACKEND, profile, selectedMeds, medicineDB, radar,
                       interactionList, initPc, askPending, sumPending, skippedAdd>>

SubstNext == CallSubstitute

SubstSpec == SubstInit /\ [][SubstNext]_vars

-----------------------------------------------------------------------------
(* The claims *)

IsPrefix(s, t) == Len(s) <= Len(t) /\ SubSeq(t, 1, Len(s)) = s

\* C1 (as claimed): searchMedicineLocal called with "" or with an absent query
\* returns the empty sequence, whatever the catalog.
C1_EmptyQueryEmptyResult ==
    (ret.fn = "searchMedicineLocal" /\ ret.arg \in {jsString(""), jsNull})
        => (~ret.threw /\ ret.value = <<>>)

\* C2 (as claimed): in an initialised session, after every step that changes
\* the selection or the profile, the displayed interaction list is the one of
\* the new selection and profile, and the radar shows their riskScore.
C2_OutputsCurrentAfterMutation ==
    [][(initPc = "done" /\ (selectedMeds' # selectedMeds \/ profile' # profile))
        => /\ interactionList' = renderedList(medicineDB', selectedMeds', profile')
           /\ radar' = <<riskScore(medicineDB', selectedMeds', profile')>>]_vars

\* the load of the catalog failed or gave no array
LoadFailed == initPc = "aborted" \/ (initPc = "done" /\ ~isArray(medicineDB))

\* C3 (as claimed): when the load fails, init still completes, the catalog is
\* the empty sequence, and the four engine functions return without throwing.
C3_LoadFailureDegrades ==
    LoadFailed
        => /\ initPc = "done"
           /\ medicineDB = jsonArray(<<>>)
           /\ ~searchMedicineLocal(medicineDB, jsString("para")).threw
           /\ ~resolveThrows(medicineDB, selectedMeds)
           /\ ~substituteAndOptimize(medicineDB, profile, recParacetamol).threw

\* C4: selectedMeds never holds an id twice, whatever the order in which
\* mapBrands and the response handlers of onSend and onSummarize run.
C4_NoDuplicateIds ==
    \A i, j \in 1..Len(selectedMeds) : i # j => selectedMeds[i] # selectedMeds[j]

\* two requests were in flight, a response named a selected medicine again
C4_Witness ==
    /\ skippedAdd
    /\ Len(selectedMeds) >= 2
    /\ askPending > 0
    /\ sumPending > 0

\* C5: every step leaves the earlier selection as a prefix of the new one, and
\* each id it appends was not in the list before it.
C5_AppendOnly ==
    [][/\ IsPrefix(selectedMeds, selectedMeds')
       /\ \A i \in (Len(selectedMeds) + 1)..Len(selectedMeds') :
              selectedMeds'[i] \notin Range(SubSeq(selectedMeds', 1, i - 1))]_vars

\* an add was a no-op, and the list keeps the order of insertion, which is
\* not the order of the catalog
C5_Witness ==
    /\ skippedAdd
    /\ selectedMeds = <<"amoxiclav", "paracetamol">>

\* the rules as the claim states them
gastricRule(meds) ==
    (\E i \in 1..Len(meds) : meds[i].id = "ibuprofen")
    /\ (\E i \in 1..Len(meds) : meds[i].id = "amoxiclav")

liverRule(meds, prof) ==
    (\E i \in 1..Len(meds) : meds[i].id = "paracetamol") /\ prof.liver = TRUE

allergyRule(meds, prof) ==
    (\E i \in 1..Len(meds) : meds[i].id = "amoxiclav")
    /\ (\E k \in 1..Len(prof.allergies) : toLowerCase(prof.allergies[k]) = "penicillin")

\* C6: checkInteractions returns the messages of exactly the rules that hold,
\* each once, gastric before liver before allergy.
C6_RulesInOrder ==
    ret.fn = "checkInteractions"
        => LET w == ret.value
               at(msg) == {i \in 1..Len(w) : w[i] = msg}
           IN /\ Range(w) \subseteq {GastricMsg, LiverMsg, AllergyMsg}
              /\ Cardinality(at(GastricMsg)) = IF gastricRule(ret.arg) THEN 1 ELSE 0
              /\ Cardinality(at(LiverMsg)) = IF liverRule(ret.arg, profile) THEN 1 ELSE 0
              /\ Cardinality(at(AllergyMsg)) = IF allergyRule(ret.arg, profile) THEN 1 ELSE 0
              /\ \A i \in at(GastricMsg), j \in at(LiverMsg) \cup at(AllergyMsg) : i < j
              /\ \A i \in at(LiverMsg), j \in at(AllergyMsg) : i < j

\* all three rules fire on a list that repeats a medicine, with the allergy
\* written in upper case
C6_Witness ==
    /\ ret.fn = "checkInteractions"
    /\ ret.value = <<GastricMsg, LiverMsg, AllergyMsg>>
    /\ Len(ret.arg) > Cardinality(Range(ret.arg))
    /\ "PENICILLIN" \in Range(profile.allergies)

\* C7: each of the six values of riskScore lies between 0 and 100.
C7_ScoresInRange ==
    ret.fn = "riskScore"
        => /\ ~ret.threw
           /\ DOMAIN ret.value =
                  {"Sedation", "Gastro", "Liver", "Kidney", "Interactions", "Allergy"}
           /\ \A d \in DOMAIN ret.value : ret.value[d] \in 0..100

\* three NSAIDs and an ulcer, two paracetamol medicines and a liver condition:
\* the sums pass 100 before the clamp
C7_Witness ==
    /\ ret.fn = "riskScore"
    /\ {"ibuprofen", "naproxen", "combiflam", "paracetamol", "calpol"}
           \subseteq Range(selectedMeds)
    /\ profile.ulcer /\ profile.liver
    /\ ret.value.Gastro = 100
    /\ ret.value.Liver = 100

\* the positions of the catalog records in s, s being a list of catalog records
positionsIn(db, s) ==
    [k \in 1..Len(s) |-> CHOOSE i \in 1..Len(db.items) : db.items[i] = s[k]]

\* s holds exactly the catalog records that satisfy want, in catalog order
IsSelection(db, s, want(_)) ==
    /\ Range(s) = {m \in Range(db.items) : want(m)}
    /\ \A k \in 1..(Len(s) - 1) : positionsIn(db, s)[k] < positionsIn(db, s)[k + 1]

\* C8 (as claimed): exactGeneric holds the records other than target, in
\* catalog order, of the same number of ingredients as target and with every
\* ingredient of target among theirs.
C8_ExactGenericHoldsTargets ==
    ret.fn = "substituteAndOptimize"
        => LET want(m) ==
                   /\ m.id # ret.arg.id
                   /\ Len(orEmpty(m, "ingredients")) = Len(orEmpty(ret.arg, "ingredients"))
                   /\ Range(orEmpty(ret.arg, "ingredients"))
                          \subseteq Range(orEmpty(m, "ingredients"))
           IN ~ret.threw /\ IsSelection(medicineDB, ret.value.exactGeneric, want)

\* C8 (amended): exactGeneric holds the records other than target, in catalog
\* order, of the same number of ingredients as target and with every one of
\* their ingredients among those of target.
C8_ExactGenericWithinTarget ==
    ret.fn = "substituteAndOptimize"
        => LET want(m) ==
                   /\ m.id # ret.arg.id
                   /\ Len(orEmpty(m, "ingredients")) = Len(orEmpty(ret.arg, "ingredients"))
                   /\ Range(orEmpty(m, "ingredients"))
                          \subseteq Range(orEmpty(ret.arg, "ingredients"))
           IN ~ret.threw /\ IsSelection(medicineDB, ret.value.exactGeneric, want)

\* the target has two ingredients, and a record that repeats one of them and
\* lacks the other is among its exact generics
C8_Witness ==
    /\ ret.fn = "substituteAndOptimize"
    /\ orEmpty(ret.arg, "ingredients") = <<"A", "B">>
    /\ \E i \in 1..Len(ret.value.exactGeneric) :
           orEmpty(ret.value.exactGeneric[i], "ingredients") = <<"A", "A">>

\* the result r names the first cheapest record of target followed by sameClass
CheapestIsFirstMinimum(r) ==
    LET seq == <<r.arg>> \o r.value.sameClass
        c == r.value.cheapest
    IN /\ \E i \in 1..Len(seq) :
              /\ seq[i] = c
              /\ \A j \in 1..(i - 1) : seq[j].priceINR > c.priceINR
       /\ \A j \in 1..Len(seq) : c.priceINR <= seq[j].priceINR
       /\ (\A j \in 1..Len(seq) : seq[j].priceINR >= r.arg.priceINR) => c = r.arg

\* C9: cheapest is the first record of least priceINR in target followed by
\* sameClass, and the call leaves the catalog as it was.
C9_CheapestFirstMinimum ==
    [][ret'.fn = "substituteAndOptimize"
        => /\ ~ret'.threw
           /\ CheapestIsFirstMinimum(ret')
           /\ medicineDB' = medicineDB]_vars

\* a same-class record costs what the target costs, none costs less, and the
\* target is returned though it is not first in the catalog
C9_Witness ==
    /\ ret.fn = "substituteAndOptimize"
    /\ Len(ret.value.sameClass) >= 2
    /\ \E i \in 1..Len(ret.value.sameClass) :
           ret.value.sameClass[i].priceINR = ret.arg.priceINR
    /\ ret.value.cheapest = ret.arg
    /\ medicineDB.items[1] # ret.arg

\* C10: every selected id is the id of a catalog record, and the Allergy value
\* of riskScore is 100 when the allergy message is among the warnings of the
\* selected records, 0 when it is not.
C10_SelectedInCatalog ==
    /\ \A i \in 1..Len(selectedMeds) :
           \E k \in 1..Len(medicineDB.items) : medicineDB.items[k].id = selectedMeds[i]
    /\ LET warned == AllergyMsg \in Range(checkInteractions(
                         resolve(medicineDB, selectedMeds), profile))
       IN riskScore(medicineDB, selectedMeds, profile).Allergy
              = IF warned THEN 100 ELSE 0

\* amoxiclav is selected and the profile names penicillin: Allergy is 100
C10_Witness ==
    /\ initPc = "done"
    /\ "amoxiclav" \in Range(selectedMeds)
    /\ radar = <<riskScore(medicineDB, selectedMeds, profile)>>
    /\ radar[1].Allergy = 100

====
